---- MODULE Spec2Model ----
(***************************************************************************)
(* A model of streamlit_app.py: one Streamlit UI session talking to an     *)
(* Agents-for-Bedrock agent.  A Streamlit script is re-executed from top   *)
(* to bottom on every widget event; each such script run is modelled by    *)
(* the action of the event that triggers it, and the one suspension point  *)
(* of a run (waiting for the remote service) splits a turn into steps.     *)
(*                                                                         *)
(* Text is a sequence of tokens: a token is a single character or an       *)
(* opaque run of non-blank characters ("boosterOrPassRefund").  escape_    *)
(* katex and the widgets' drawing are presentation and are not modelled:   *)
(* `surfaced' records the running text handed to placeholder.markdown.     *)
(***************************************************************************)
EXTENDS Integers, Sequences, FiniteSets, TLC

VARIABLES
    AGENT_ID,       \* line 7, after .strip()
    ALIAS_ID,       \* line 8, after .strip()
    state_keys,     \* the keys present in st.session_state
    overrides,      \* st.session_state.overrides
    use_overrides,  \* st.session_state.use_overrides
    session_id,     \* st.session_state.session_id
    messages,       \* st.session_state.messages
    queued,         \* st.session_state["_queued_user_msgs"]
    rerun_pending,  \* st.rerun() was called: the script starts again at once
    pc,             \* where the current script run is
    typed_input,    \* line 270: what st.chat_input returned in this run
    user_input,     \* line 275/278
    acc,            \* line 287
    surfaced,       \* what placeholder.markdown was given, in order
    requests,       \* the kwargs of each client.invoke_agent call of this run
    resp,           \* the response of client.invoke_agent
    yielded,        \* the chunks invoke_agent_stream has yielded, in order
    emitted,        \* the events the completion stream has produced, in order
    failure,        \* the exception caught at lines 320-323, if any
    session_attrs,  \* line 290: the result of build_session_attributes
    baseline_prompt_attrs,  \* lines 293-299
    inputs,         \* widget events and invocation responses taken so far
    events          \* stream events the remote service has produced so far

vars == <<AGENT_ID, ALIAS_ID, state_keys, overrides, use_overrides, session_id,
          messages, queued, rerun_pending, pc, typed_input, user_input, acc,
          surfaced,
          requests, resp, yielded, emitted, failure, session_attrs,
          baseline_prompt_attrs, inputs, events>>

store == <<state_keys, overrides, use_overrides, session_id, messages, queued>>
turn  == <<typed_input, user_input, acc, surfaced, requests, resp, yielded, emitted, failure,
           session_attrs, baseline_prompt_attrs>>

----------------------------------------------------------------------------
(* Bounds of the model *)

\* inputs one session takes from its environment: widget events (an edit, a
\* toggle, a click, a submission) and the responses of client.invoke_agent
MaxInputs == 4
\* events the completion streams of one session produce
MaxEvents == 2

----------------------------------------------------------------------------
(* Text *)

Blank == {" ", "\t"}

RECURSIVE LStrip(_)
LStrip(s) ==
    IF s = <<>> THEN <<>>
    ELSE IF Head(s) \in Blank THEN LStrip(Tail(s)) ELSE s

RECURSIVE RStrip(_)
RStrip(s) ==
    IF s = <<>> THEN <<>>
    ELSE IF s[Len(s)] \in Blank THEN RStrip(SubSeq(s, 1, Len(s) - 1)) ELSE s

\* str.strip()
Strip(s) == RStrip(LStrip(s))

\* Python truthiness of a str
Truthy(s) == s /= <<>>

Digits == <<"0", "1", "2", "3", "4", "5", "6", "7", "8", "9">>
DigitSet == {Digits[i] : i \in 1..10}
DigitVal(c) == (CHOOSE i \in 1..10 : Digits[i] = c) - 1

RECURSIVE NatToStr(_)
NatToStr(n) ==
    IF n < 10 THEN <<Digits[n + 1]>>
    ELSE NatToStr(n \div 10) \o <<Digits[(n % 10) + 1]>>

\* str(int)
IntToStr(n) == IF n < 0 THEN <<"-">> \o NatToStr(-n) ELSE NatToStr(n)

RECURSIVE DigitsToNat(_)
DigitsToNat(s) ==
    IF s = <<>> THEN 0
    ELSE 10 * DigitsToNat(SubSeq(s, 1, Len(s) - 1)) + DigitVal(s[Len(s)])

AllDigits(s) == s /= <<>> /\ \A i \in 1..Len(s) : s[i] \in DigitSet

(* The values a field of the record can hold in Python. *)
IntV(n)  == [t |-> "int", v |-> n]
StrV(s)  == [t |-> "str", s |-> s]
NoneV    == [t |-> "none"]

\* int(x): [ok |-> FALSE] stands for ValueError / TypeError
ParseFail == [ok |-> FALSE, v |-> 0]
ParseStr(s) ==
    LET u    == Strip(s)
        sign == u /= <<>> /\ Head(u) \in {"+", "-"}
        body == IF sign THEN Tail(u) ELSE u
    IN  IF AllDigits(body)
        THEN [ok |-> TRUE,
              v  |-> IF sign /\ Head(u) = "-" THEN -DigitsToNat(body)
                     ELSE DigitsToNat(body)]
        ELSE ParseFail
PyInt(x) ==
    CASE x.t = "int"  -> [ok |-> TRUE, v |-> x.v]
      [] x.t = "str"  -> ParseStr(x.s)
      [] x.t = "none" -> ParseFail

----------------------------------------------------------------------------
(* Configuration and defaults *)

GUARDRAIL_INTERVAL == 50
STREAM_FINAL == TRUE

DEFAULT_CUST    == <<"1E5A1F564E180BD3EBF02D7D5007DB28">>
DEFAULT_BRAND   == <<"DEMO-DEMO">>
DEFAULT_CHANNEL == <<"AGENT_TOOL">>
DEFAULT_LANG    == <<"en">>

\* the values os.getenv(...).strip() can give for AGENT_ID and AGENT_ALIAS_ID
EnvIds(default) == {Strip(e) : e \in {<<>>, <<" ">>, default}}

\* the keys build_session_attributes copies when their value is truthy
CopiedKeys == {"jwt", "customerOuid", "lang", "xBrand", "xChannel",
               "billingAccountOuid", "parentOuid", "offeringOuid", "specOuid",
               "msisdn"}
\* the st.text_input widgets of the settings panel
TextInputKeys == (CopiedKeys \ {"lang"}) \cup {"goodwillReason"}
AllKeys == CopiedKeys \cup {"goodwillSizeGb", "goodwillReason"}

\* lines 82-95
InitialOverrides ==
    [jwt |-> <<>>, customerOuid |-> DEFAULT_CUST, billingAccountOuid |-> <<>>,
     parentOuid |-> <<>>, offeringOuid |-> <<>>, specOuid |-> <<>>,
     msisdn |-> <<>>, goodwillSizeGb |-> IntV(2),
     goodwillReason |-> <<"boosterOrPassRefund">>, lang |-> DEFAULT_LANG,
     xBrand |-> DEFAULT_BRAND, xChannel |-> DEFAULT_CHANNEL]

\* dict.get(k, default)
Get(o, k, default) == IF k \in DOMAIN o THEN o[k] ELSE default

----------------------------------------------------------------------------
(* Attribute Builder *)

EmptyAttrs == [k \in {} |-> <<>>]

\* the clamp of line 225 left out
GoodwillSize_NoClamp(o) ==
    LET p == PyInt(Get(o, "goodwillSizeGb", IntV(2)))
    IN  IF p.ok THEN IntToStr(p.v) ELSE <<"2">>

\* lines 223-228
GoodwillSize(o) ==
    LET p == PyInt(Get(o, "goodwillSizeGb", IntV(2)))
    IN  IF p.ok THEN IntToStr(IF p.v < 1 THEN 1 ELSE p.v) ELSE <<"2">>

\* lines 209-220: `if o.get(k): attrs[k] = o[k]`
CopiedOf(o) == {k \in CopiedKeys : Truthy(Get(o, k, <<>>))}

\* lines 229-230
ReasonOf(o) == IF Truthy(Get(o, "goodwillReason", <<>>)) THEN {"goodwillReason"} ELSE {}

\* the early return of lines 203-204 left out
build_session_attributes_AlwaysOn(o, use) ==
    [k \in CopiedOf(o) \cup {"goodwillSizeGb"} \cup ReasonOf(o) |->
        IF k = "goodwillSizeGb" THEN GoodwillSize(o) ELSE o[k]]

\* lines 196-232
build_session_attributes(o, use) ==
    IF ~use THEN EmptyAttrs
    ELSE [k \in CopiedOf(o) \cup {"goodwillSizeGb"} \cup ReasonOf(o) |->
            IF k = "goodwillSizeGb" THEN GoodwillSize(o) ELSE o[k]]

\* lines 293-299
BaselineAttrs ==
    [xBrand |-> DEFAULT_BRAND, xChannel |-> DEFAULT_CHANNEL, lang |-> DEFAULT_LANG]

----------------------------------------------------------------------------
(* Agent Invocation Client *)

\* an optional dict argument: None or a dict
None == [some |-> FALSE]
Some(x) == [some |-> TRUE, v |-> x]
\* Python truthiness of `dict | None`
DictTruthy(d) == d.some /\ DOMAIN d.v /= {}

\* line 43 left out: the attributes go to the sticky slot only
invoke_kwargs_StickyOnly(prompt, sid, sattrs, battrs) ==
    LET base == [agentId |-> AGENT_ID,
                 agentAliasId |-> ALIAS_ID,
                 sessionId |-> sid,
                 inputText |-> prompt,
                 enableTrace |-> FALSE,
                 streamingConfigurations |->
                    [applyGuardrailInterval |-> GUARDRAIL_INTERVAL,
                     streamFinalResponse |-> STREAM_FINAL]]
    IN  IF DictTruthy(sattrs)
        THEN base @@ ("sessionState" :> [sessionAttributes |-> sattrs.v])
        ELSE IF DictTruthy(battrs)
        THEN base @@ ("sessionState" :> [promptSessionAttributes |-> battrs.v])
        ELSE base

\* lines 28-49: the kwargs of client.invoke_agent
invoke_kwargs(prompt, sid, sattrs, battrs) ==
    LET base == [agentId |-> AGENT_ID,
                 agentAliasId |-> ALIAS_ID,
                 sessionId |-> sid,
                 inputText |-> prompt,
                 enableTrace |-> FALSE,
                 streamingConfigurations |->
                    [applyGuardrailInterval |-> GUARDRAIL_INTERVAL,
                     streamFinalResponse |-> STREAM_FINAL]]
    IN  IF DictTruthy(sattrs)
        THEN base @@ ("sessionState" :>
                [sessionAttributes |-> sattrs.v,
                 promptSessionAttributes |-> sattrs.v])
        ELSE IF DictTruthy(battrs)
        THEN base @@ ("sessionState" :>
                [promptSessionAttributes |-> battrs.v])
        ELSE base

(* bytes.decode("utf-8", errors="ignore") over the bytes of ByteAlphabet:    *)
(* an ASCII byte is its character, a two-byte lead followed by a             *)
(* continuation byte is one character, and every other byte is dropped.      *)
IsAscii(b) == b < 128
IsLead2(b) == 194 <= b /\ b <= 223
IsCont(b)  == 128 <= b /\ b <= 191
Chr(cp) ==
    CASE cp = 97  -> "a"
      [] cp = 98  -> "b"
      [] cp = 233 -> "e-acute"
      [] OTHER    -> "?"
RECURSIVE Decode(_)
Decode(bs) ==
    IF bs = <<>> THEN <<>>
    ELSE IF IsAscii(Head(bs)) THEN <<Chr(Head(bs))>> \o Decode(Tail(bs))
    ELSE IF IsLead2(Head(bs)) /\ Len(bs) >= 2 /\ IsCont(bs[2])
         THEN <<Chr((Head(bs) - 192) * 64 + (bs[2] - 128))>> \o Decode(Tail(Tail(bs)))
    ELSE Decode(Tail(bs))

\* line 61 with errors="strict": a byte that is dropped raises instead
decode_chunk_Strict(bs) ==
    [ok |-> \A i \in 1..Len(bs) :
                \/ IsAscii(bs[i])
                \/ IsLead2(bs[i]) /\ i < Len(bs) /\ IsCont(bs[i + 1])
                \/ IsCont(bs[i]) /\ i > 1 /\ IsLead2(bs[i - 1]),
     text |-> Decode(bs)]

\* line 61: errors="ignore" never raises UnicodeDecodeError
decode_chunk(bs) == [ok |-> TRUE, text |-> Decode(bs)]

\* line 60 testing a key no event has
HasChunk_Never(event) == "chunks" \in DOMAIN event

\* line 60
HasChunk(event) == "chunk" \in DOMAIN event

\* the chunk payloads the remote service sends: "a", and an e-acute followed
\* by an invalid byte
Payloads == {<<97>>, <<195, 169, 255>>}

\* the events of a completion stream: chunks, a chunk without bytes, a trace
Events == {[chunk |-> [bytes |-> p]] : p \in Payloads}
          \cup {[chunk |-> [attribution |-> <<>>]], [trace |-> <<>>]}

(* The exceptions a call can raise.  botocore: ClientError is an error      *)
(* response of the service and EventStreamError (an error event inside the *)
(* stream) derives from it; EndpointConnectionError is a transport failure *)
(* and derives from BotoCoreError, not from ClientError.                   *)
InvokeErrors == {"ClientError", "EndpointConnectionError"}
StreamErrors == {"EventStreamError"}
NoFailure == "none"

\* isinstance(e, ClientError), line 320
IsClientError(e) == e \in {"ClientError", "EventStreamError"}

\* the prefixes of lines 321 and 323 (the warning sign before them left out)
AwsPrefix == "AWS error: "
RuntimePrefix == "Runtime error: "

\* lines 320-323: the text that replaces the accumulator; str(e) is e's name
Diagnostic(e) ==
    IF IsClientError(e) THEN <<AwsPrefix, e>> ELSE <<RuntimePrefix, e>>

NoResp == [completion |-> FALSE, received |-> FALSE]

----------------------------------------------------------------------------
(* The session: one script run per event *)

UUIDs == {<<"uuid-1">>, <<"uuid-2">>}
NoSessionId == <<>>

\* lines 253-259 (the pictograph before each label left out)
quick_prompts ==
    << <<"Summarize account">>,
       <<"Check billing & payments">>,
       <<"Analyze consumption; recommend plan/booster">>,
       <<"Spot risks; suggest actions">>,
       <<"Review tickets; propose next steps">> >>

\* the buttons the user clicks: the first and the last
ClickedButtons == {1, Len(quick_prompts)}

\* what the user types into st.chat_input
TypedInputs == {<<"hi">>}
\* st.chat_input returns None when nothing was submitted: the falsy text
NoTyped == <<>>

\* what the user can type into a st.text_input of the settings panel
TextValues == {<<>>, <<" ">>, <<"v">>}
\* what the user can pick in st.number_input(min_value=1, max_value=1000)
SizeValues == {IntV(1), IntV(2), IntV(1000)}
\* the options of the st.selectbox
LangValues == {<<"en">>, <<"fr">>}

\* the text inputs the user edits: two with an empty default, two with a
\* default value, and the reason; lines 209-220 treat the others alike
EditedKeys == {"jwt", "customerOuid", "xBrand", "msisdn", "goodwillReason"}

\* the edits of one widget of the settings panel: <<key, new value>>
WidgetEdits ==
    (EditedKeys \X TextValues)
    \cup ({"lang"} \X LangValues)
    \cup ({"goodwillSizeGb"} \X SizeValues)

\* lines 237-239 left out: the run goes on whatever the identifiers are
Configured_Unchecked == TRUE

\* lines 237-239
Configured == AGENT_ID /= <<>> /\ ALIAS_ID /= <<>>

\* widget events delivered to the script while a run is under way
Idle_Ungated == TRUE

\* no script run is under way: the next run can start, with a widget event
\* or, after st.rerun(), without one
Idle == pc = "idle"
Loaded == "overrides" \in state_keys

TurnReset ==
    /\ typed_input' = NoTyped
    /\ user_input' = <<>>
    /\ acc' = <<>>
    /\ surfaced' = <<>>
    /\ requests' = <<>>
    /\ resp' = NoResp
    /\ yielded' = <<>>
    /\ emitted' = <<>>
    /\ failure' = NoFailure
    /\ session_attrs' = EmptyAttrs
    /\ baseline_prompt_attrs' = None

\* the test of line 242 left out: a new uuid4 on every run
SessionIdAfterInit_Regenerated == UUIDs

\* lines 242-243: uuid4 only when the store holds no session id yet
SessionIdAfterInit ==
    IF "session_id" \in state_keys THEN {session_id} ELSE UUIDs

(* Lines 81-245 of a script run in which the settings widgets return the   *)
(* record o and the flag u: the store is written, the run stops at the     *)
(* configuration guard or goes on to create the session id and the         *)
(* transcript.                                                             *)
Prologue(o, u) ==
    /\ overrides' = o
    /\ use_overrides' = u
    /\ IF Configured
       THEN /\ session_id' \in SessionIdAfterInit
            /\ state_keys' = state_keys \cup
                    {"overrides", "use_overrides", "session_id", "messages"}
       ELSE /\ session_id' = session_id
            /\ state_keys' = state_keys \cup {"overrides", "use_overrides"}

\* lines 280-299: the turn begins with the prompt p
BeginTurn(p, typed) ==
    /\ typed_input' = typed
    /\ user_input' = p
    /\ messages' = Append(messages, [role |-> "user", content |-> p])
    /\ acc' = <<>>
    /\ session_attrs' = build_session_attributes(overrides', use_overrides')
    /\ baseline_prompt_attrs' = IF ~use_overrides' THEN Some(BaselineAttrs) ELSE None
    /\ surfaced' = <<>>
    /\ requests' = <<>>
    /\ resp' = NoResp
    /\ yielded' = <<>>
    /\ emitted' = <<>>
    /\ failure' = NoFailure
    /\ pc' = "invoke"

\* the first script run of the session: no widget has an event
PageLoad ==
    /\ pc = "idle" /\ ~Loaded
    /\ Prologue(InitialOverrides, FALSE)
    /\ UNCHANGED <<events, AGENT_ID, ALIAS_ID, messages, queued, rerun_pending, pc, turn, inputs>>

\* lines 273-278 popping the newest label
input_selection_Lifo(q, typed) ==
    IF q /= <<>>
    THEN [user_input |-> q[Len(q)], queue |-> SubSeq(q, 1, Len(q) - 1)]
    ELSE [user_input |-> typed, queue |-> q]

\* lines 273-278: a queued quick prompt first, otherwise the typed input
input_selection(q, typed) ==
    IF q /= <<>>
    THEN [user_input |-> Head(q), queue |-> Tail(q)]
    ELSE [user_input |-> typed, queue |-> q]

\* lines 270-299 of a run in which no button is clicked and st.chat_input
\* returns typed: nothing of it is reached when the guard of line 237 stops
InputAndTurn(typed) ==
    IF ~Configured
    THEN UNCHANGED <<messages, queued, pc, turn>>
    ELSE LET sel == input_selection(queued, typed) IN
         /\ queued' = sel.queue
         /\ IF Truthy(sel.user_input)
            THEN BeginTurn(sel.user_input, typed)
            ELSE UNCHANGED <<messages, pc, turn>>

\* a run with the event leaves room for the response of the turn it begins
Room(typed) ==
    IF Configured /\ (queued /= <<>> \/ Truthy(typed))
    THEN inputs + 2 <= MaxInputs
    ELSE inputs + 1 <= MaxInputs

\* the run after the user changed one widget of the settings panel
EditSetting ==
    /\ Idle /\ Loaded /\ Room(NoTyped)
    /\ \E e \in WidgetEdits :
        /\ overrides[e[1]] /= e[2]
        /\ Prologue([overrides EXCEPT ![e[1]] = e[2]], use_overrides)
    /\ InputAndTurn(NoTyped)
    /\ rerun_pending' = FALSE
    /\ inputs' = inputs + 1
    /\ UNCHANGED <<events, AGENT_ID, ALIAS_ID>>

\* the run after the user ticked or unticked the checkbox of line 106
ToggleOverrides ==
    /\ Idle /\ Loaded /\ Room(NoTyped)
    /\ Prologue(overrides, ~use_overrides)
    /\ InputAndTurn(NoTyped)
    /\ rerun_pending' = FALSE
    /\ inputs' = inputs + 1
    /\ UNCHANGED <<events, AGENT_ID, ALIAS_ID>>

\* the run after the user clicked a quick prompt: lines 262-267
ClickQuickPrompt ==
    /\ Idle /\ Loaded /\ inputs + 2 <= MaxInputs
    /\ Prologue(overrides, use_overrides)
    /\ \E i \in ClickedButtons :
        IF Configured
        THEN /\ queued' = Append(queued, quick_prompts[i])
             /\ rerun_pending' = TRUE
        ELSE /\ queued' = queued
             /\ rerun_pending' = FALSE
    /\ inputs' = inputs + 1
    /\ UNCHANGED <<events, AGENT_ID, ALIAS_ID, messages, pc, turn>>

\* the run after the user submitted the chat input: lines 270-299
SubmitInput ==
    /\ Idle /\ Loaded /\ inputs + 2 <= MaxInputs
    /\ Prologue(overrides, use_overrides)
    /\ \E typed \in TypedInputs : InputAndTurn(typed)
    /\ rerun_pending' = FALSE
    /\ inputs' = inputs + 1
    /\ UNCHANGED <<events, AGENT_ID, ALIAS_ID>>

\* the run st.rerun() starts when no widget event comes with it
Rerun ==
    /\ Idle /\ rerun_pending
    /\ queued /= <<>> => inputs + 1 <= MaxInputs
    /\ Prologue(overrides, use_overrides)
    /\ InputAndTurn(NoTyped)
    /\ rerun_pending' = FALSE
    /\ UNCHANGED <<events, AGENT_ID, ALIAS_ID, inputs>>

----------------------------------------------------------------------------
(* The turn: invocation and stream consumption *)

\* line 317 with the operands swapped
Consume_Prepend(chunk) ==
    /\ yielded' = Append(yielded, chunk)
    /\ acc' = chunk \o acc
    /\ surfaced' = Append(surfaced, [text |-> chunk \o acc, cursor |-> TRUE])

\* lines 317-318: a chunk reaches the consumer
Consume(chunk) ==
    /\ yielded' = Append(yielded, chunk)
    /\ acc' = acc \o chunk
    /\ surfaced' = Append(surfaced, [text |-> acc \o chunk, cursor |-> TRUE])

\* line 325 inside the try block: a failed turn appends nothing
Recover_NoAppend(e) ==
    /\ failure' = e
    /\ acc' = Diagnostic(e)
    /\ surfaced' = Append(surfaced, [text |-> Diagnostic(e), cursor |-> FALSE])
    /\ messages' = messages
    /\ pc' = "done"

\* lines 320-325 writing the diagnostic over the last entry of the transcript
Recover_Overwrites(e) ==
    /\ failure' = e
    /\ acc' = Diagnostic(e)
    /\ surfaced' = Append(surfaced, [text |-> Diagnostic(e), cursor |-> FALSE])
    /\ messages' = [messages EXCEPT
                       ![Len(messages)] = [role |-> "assistant", content |-> Diagnostic(e)]]
    /\ pc' = "done"

\* lines 320-325: the exception e is caught, the turn ends
Recover(e) ==
    /\ failure' = e
    /\ acc' = Diagnostic(e)
    /\ surfaced' = Append(surfaced, [text |-> Diagnostic(e), cursor |-> FALSE])
    /\ messages' = Append(messages, [role |-> "assistant", content |-> Diagnostic(e)])
    /\ pc' = "done"

\* line 311 called without the baseline of line 315
TurnKwargs_NoBaseline ==
    invoke_kwargs(user_input, session_id,
                  IF DictTruthy(Some(session_attrs)) THEN Some(session_attrs) ELSE None,
                  None)

\* line 311: the kwargs of the call this turn makes
TurnKwargs ==
    invoke_kwargs(user_input, session_id,
                  IF DictTruthy(Some(session_attrs)) THEN Some(session_attrs) ELSE None,
                  baseline_prompt_attrs)

\* line 56 yielding nothing of the response
FallbackChunk_Empty(r) == <<>>

\* line 56
FallbackChunk(r) == Get(r, "outputText", <<>>)

\* line 50: the call raises
InvokeRaises ==
    /\ pc = "invoke"
    /\ inputs' = inputs + 1
    /\ requests' = Append(requests, TurnKwargs)
    /\ \E e \in InvokeErrors : Recover(e)
    /\ UNCHANGED <<events, AGENT_ID, ALIAS_ID, state_keys, overrides, use_overrides, session_id,
                   queued, rerun_pending, typed_input, user_input, resp, yielded, emitted,
                   session_attrs, baseline_prompt_attrs>>

\* lines 50-59: the call returns a response with a completion stream
InvokeStreams ==
    /\ pc = "invoke"
    /\ inputs' = inputs + 1
    /\ requests' = Append(requests, TurnKwargs)
    /\ resp' = [completion |-> TRUE, received |-> TRUE]
    /\ pc' = "stream"
    /\ UNCHANGED <<events, store, rerun_pending, AGENT_ID, ALIAS_ID, typed_input, user_input, acc, surfaced,
                   yielded, emitted, failure, session_attrs, baseline_prompt_attrs>>

\* lines 50-56: the call returns a response without a completion stream; the
\* generator yields resp.get("outputText", "") and is suspended at line 56
InvokeFallback ==
    /\ pc = "invoke"
    /\ inputs' = inputs + 1
    /\ requests' = Append(requests, TurnKwargs)
    /\ \E r \in {[completion |-> FALSE, received |-> TRUE],
                 [completion |-> FALSE, received |-> TRUE, outputText |-> <<"done">>]} :
        /\ resp' = r
        /\ Consume(FallbackChunk(r))
    /\ pc' = "fallback"
    /\ UNCHANGED <<events, store, rerun_pending, AGENT_ID, ALIAS_ID, typed_input, user_input,
                   emitted, failure, session_attrs, baseline_prompt_attrs>>

\* lines 59-61: the stream produces one more event
StreamNext ==
    /\ pc = "stream" /\ events < MaxEvents
    /\ events' = events + 1
    /\ \E event \in Events :
        /\ emitted' = Append(emitted, event)
        /\ IF HasChunk(event)
           THEN IF "bytes" \in DOMAIN event["chunk"]
                THEN LET d == decode_chunk(event["chunk"]["bytes"]) IN
                     IF d.ok
                     THEN /\ Consume(d.text)
                          /\ UNCHANGED <<messages, pc, failure>>
                     ELSE /\ Recover("UnicodeDecodeError")
                          /\ UNCHANGED yielded
                ELSE /\ Recover("KeyError")
                     /\ UNCHANGED yielded
           ELSE UNCHANGED <<messages, pc, failure, yielded, acc, surfaced>>
    /\ UNCHANGED <<AGENT_ID, ALIAS_ID, state_keys, overrides, use_overrides, session_id,
                   queued, rerun_pending, typed_input, user_input, requests, resp,
                   session_attrs, baseline_prompt_attrs, inputs>>

\* line 59: the stream raises instead of producing an event
StreamRaises ==
    /\ pc = "stream"
    /\ \E e \in StreamErrors : Recover(e)
    /\ UNCHANGED <<events, AGENT_ID, ALIAS_ID, state_keys, overrides, use_overrides, session_id,
                   queued, rerun_pending, typed_input, user_input, requests, resp, yielded, emitted,
                   session_attrs, baseline_prompt_attrs, inputs>>

\* lines 57/59 and 324-325: the generator is exhausted, the turn ends
StreamEnds ==
    /\ pc \in {"stream", "fallback"}
    /\ surfaced' = Append(surfaced, [text |-> acc, cursor |-> FALSE])
    /\ messages' = Append(messages, [role |-> "assistant", content |-> acc])
    /\ pc' = "done"
    /\ UNCHANGED <<events, AGENT_ID, ALIAS_ID, state_keys, overrides, use_overrides, session_id,
                   queued, rerun_pending, typed_input, user_input, acc, requests, resp, yielded,
                   emitted, failure, session_attrs, baseline_prompt_attrs, inputs>>

\* the script run is over: its locals are gone
EndRun ==
    /\ pc = "done"
    /\ pc' = "idle"
    /\ TurnReset
    /\ UNCHANGED <<events, store, rerun_pending, AGENT_ID, ALIAS_ID, inputs>>

----------------------------------------------------------------------------

Init ==
    /\ AGENT_ID \in EnvIds(<<"NCTQZKII1Y">>)
    /\ ALIAS_ID \in EnvIds(<<"GDKCKJIYXI">>)
    /\ state_keys = {}
    /\ overrides = InitialOverrides
    /\ use_overrides = FALSE
    /\ session_id = NoSessionId
    /\ messages = <<>>
    /\ queued = <<>>
    /\ rerun_pending = FALSE
    /\ pc = "idle"
    /\ typed_input = NoTyped
    /\ user_input = <<>>
    /\ acc = <<>>
    /\ surfaced = <<>>
    /\ requests = <<>>
    /\ resp = NoResp
    /\ yielded = <<>>
    /\ emitted = <<>>
    /\ failure = NoFailure
    /\ session_attrs = EmptyAttrs
    /\ baseline_prompt_attrs = None
    /\ inputs = 0
    /\ events = 0

Next ==
    \/ PageLoad
    \/ EditSetting
    \/ ToggleOverrides
    \/ ClickQuickPrompt
    \/ SubmitInput
    \/ Rerun
    \/ InvokeRaises
    \/ InvokeStreams
    \/ InvokeFallback
    \/ StreamNext
    \/ StreamRaises
    \/ StreamEnds
    \/ EndRun

Spec == Init /\ [][Next]_vars

----------------------------------------------------------------------------
(* build_session_attributes as a function: every record, either flag *)

\* the text a filled field holds
FillValues == {<<" ">>, <<"\t", " ">>, <<"v">>, <<" ", "v", " ">>}

\* what o.get("goodwillSizeGb", 2) can be given to int()
SizeInputs ==
    {IntV(n) : n \in {-3, 0, 1, 2, 17, 1000}}
    \cup {StrV(t) : t \in {<<"7">>, <<" ", "1", "2", " ">>, <<"-", "4">>, <<"+", "5">>,
                          <<"0">>, <<>>, <<"a", "b", "c">>, <<"1", ".", "5">>,
                          <<"1", " ", "2">>, <<"-">>}}
    \cup {NoneV}

\* the records: some fields hold the text w, the others are empty, and
\* goodwillSizeGb holds any of SizeInputs or is missing
BuildInputs ==
    UNION {
        LET o == [k \in AllKeys |->
                    IF k = "goodwillSizeGb" THEN z
                    ELSE IF k \in filled THEN w ELSE <<>>]
        IN  {o, [k \in AllKeys \ {"goodwillSizeGb"} |-> o[k]]}
        : <<filled, w, z>> \in
            (SUBSET {"jwt", "customerOuid", "lang", "msisdn", "goodwillReason"})
            \X FillValues \X SizeInputs }

InitBuild ==
    /\ AGENT_ID = <<"NCTQZKII1Y">>
    /\ ALIAS_ID = <<"GDKCKJIYXI">>
    /\ state_keys = {"overrides", "use_overrides"}
    /\ overrides \in BuildInputs
    /\ use_overrides \in BOOLEAN
    /\ session_id = NoSessionId
    /\ messages = <<>>
    /\ queued = <<>>
    /\ rerun_pending = FALSE
    /\ pc = "build"
    /\ typed_input = NoTyped
    /\ user_input = <<>>
    /\ acc = <<>>
    /\ surfaced = <<>>
    /\ requests = <<>>
    /\ resp = NoResp
    /\ yielded = <<>>
    /\ emitted = <<>>
    /\ failure = NoFailure
    /\ session_attrs = EmptyAttrs
    /\ baseline_prompt_attrs = None
    /\ inputs = 0
    /\ events = 0

\* line 290: build_session_attributes() is called
ApplyBuild ==
    /\ pc = "build"
    /\ session_attrs' = build_session_attributes(overrides, use_overrides)
    /\ pc' = "built"
    /\ UNCHANGED <<AGENT_ID, ALIAS_ID, store, rerun_pending, typed_input, user_input, acc,
                   surfaced,
                   requests, resp, yielded, emitted, failure, baseline_prompt_attrs,
                   inputs, events>>

NextBuild == ApplyBuild

SpecBuild == InitBuild /\ [][NextBuild]_vars

----------------------------------------------------------------------------
(* Properties *)

InTurn == pc \in {"invoke", "stream", "fallback", "done"}
LastMessage == messages[Len(messages)]

RECURSIVE Concat(_)
\* the concatenation of a sequence of texts
Concat(ts) == IF ts = <<>> THEN <<>> ELSE Head(ts) \o Concat(Tail(ts))

\* c1, c1+c2, ..., c1+...+cn
RunningConcats(ts) == [i \in 1..Len(ts) |-> Concat(SubSeq(ts, 1, i))]

HasSessionState(r) == "sessionState" \in DOMAIN r
HasSticky(r) == HasSessionState(r) /\ "sessionAttributes" \in DOMAIN r.sessionState
HasPrompt(r) == HasSessionState(r) /\ "promptSessionAttributes" \in DOMAIN r.sessionState

(* C1: in a turn run with use_overrides true and a customerOuid that is     *)
(* empty or blank, client.invoke_agent is not called.                      *)
C1_GuardNoRemoteCall ==
    (InTurn /\ use_overrides /\ Strip(overrides["customerOuid"]) = <<>>)
        => requests = <<>>

\* what one step of the session does to the transcript
C2_Step ==
    /\ (pc = "idle" /\ pc' = "invoke") =>
            /\ Truthy(user_input')
            /\ messages' = Append(messages, [role |-> "user", content |-> user_input'])
    /\ (pc \in {"invoke", "stream", "fallback"} /\ pc' = "done") =>
            /\ Len(messages') = Len(messages) + 1
            /\ SubSeq(messages', 1, Len(messages)) = messages
            /\ messages'[Len(messages')].role = "assistant"
            /\ messages'[Len(messages')].content = acc'
            /\ failure' /= NoFailure =>
                    /\ acc' /= <<>>
                    /\ acc' = Diagnostic(failure')
    /\ (pc' /= pc /\ pc' = "idle") => pc = "done"
    /\ (pc' /= pc /\ pc = "idle") => pc' = "invoke"
    /\ ~(pc = "idle" /\ pc' = "invoke")
        /\ ~(pc \in {"invoke", "stream", "fallback"} /\ pc' = "done")
        => messages' = messages

(* C2: a turn appends exactly two messages: the user's prompt when it      *)
(* begins and one assistant message when it ends, by success or by a       *)
(* failure at any point, the content after a failure being a non-empty     *)
(* diagnostic; no other step of the session touches the transcript.        *)
C2_TurnAppendsTwo == [][C2_Step]_vars

\* a second turn has failed after a chunk was accumulated
C2_Witness ==
    /\ pc = "done" /\ failure /= NoFailure /\ yielded /= <<>>
    /\ Len(messages) = 4
    /\ messages[3].role = "user" /\ messages[4].role = "assistant"

(* C3: with use_overrides true, each copied key is in the built mapping    *)
(* exactly when its value is non-empty after trimming.                     *)
C3_TrimmedFilter ==
    (InTurn /\ use_overrides) =>
        \A k \in CopiedKeys :
            (k \in DOMAIN session_attrs) <=> (Strip(overrides[k]) /= <<>>)

(* C4: with use_overrides true the built mapping holds goodwillSizeGb, a   *)
(* decimal string of an integer >= 1: max(1, n) when the input parses as   *)
(* the integer n, and 2 when it does not parse.                            *)
C4_GoodwillSize ==
    (pc = "built" /\ use_overrides) =>
        /\ "goodwillSizeGb" \in DOMAIN session_attrs
        /\ LET text == session_attrs["goodwillSizeGb"]
               p    == PyInt(Get(overrides, "goodwillSizeGb", IntV(2)))
           IN  /\ AllDigits(text)
               /\ Head(text) /= "0"
               /\ DigitsToNat(text) >= 1
               /\ p.ok => DigitsToNat(text) = (IF p.v > 1 THEN p.v ELSE 1)
               /\ ~p.ok => DigitsToNat(text) = 2

\* a text that parses as an integer below 1 was clamped
C4_Witness ==
    /\ pc = "built" /\ use_overrides
    /\ "goodwillSizeGb" \in DOMAIN overrides
    /\ overrides["goodwillSizeGb"].t = "str"
    /\ PyInt(overrides["goodwillSizeGb"]).ok
    /\ PyInt(overrides["goodwillSizeGb"]).v < 0
    /\ session_attrs["goodwillSizeGb"] = <<"1">>

(* C5: in a turn run with use_overrides false the built mapping is empty   *)
(* and the request is the fixed fields plus a sessionState whose only key  *)
(* is promptSessionAttributes, equal to the baseline: nothing of the       *)
(* overrides record is in it.                                              *)
C5_DisabledSendsBaseline ==
    (InTurn /\ ~use_overrides) =>
        /\ session_attrs = EmptyAttrs
        /\ \A i \in 1..Len(requests) :
            /\ DOMAIN requests[i] =
                 {"agentId", "agentAliasId", "sessionId", "inputText", "enableTrace",
                  "streamingConfigurations", "sessionState"}
            /\ DOMAIN requests[i].sessionState = {"promptSessionAttributes"}
            /\ requests[i].sessionState.promptSessionAttributes =
                 [xBrand |-> DEFAULT_BRAND, xChannel |-> DEFAULT_CHANNEL,
                  lang |-> DEFAULT_LANG]
            /\ requests[i].inputText = user_input
            /\ requests[i].sessionId = session_id
            /\ requests[i].agentId = AGENT_ID
            /\ requests[i].agentAliasId = ALIAS_ID

\* a request went out with overrides off and an edited record
C5_Witness ==
    /\ InTurn /\ ~use_overrides /\ Len(requests) = 1
    /\ overrides["jwt"] = <<"v">>

(* C6: a request carries sessionAttributes exactly when use_overrides is   *)
(* true and the built mapping is non-empty; promptSessionAttributes is     *)
(* then present and equal to it, and the baseline is sent only without     *)
(* sessionAttributes.                                                      *)
C6_StickyMirrored ==
    InTurn =>
        \A i \in 1..Len(requests) :
            LET r == requests[i] IN
            /\ HasSticky(r) <=> (use_overrides /\ DOMAIN session_attrs /= {})
            /\ HasSticky(r) =>
                /\ HasPrompt(r)
                /\ r.sessionState.sessionAttributes = session_attrs
                /\ r.sessionState.promptSessionAttributes = session_attrs
            /\ (HasPrompt(r) /\ ~HasSticky(r)) =>
                /\ ~use_overrides
                /\ r.sessionState.promptSessionAttributes = BaselineAttrs

\* a request went out with the built attributes in the sticky slot
C6_Witness ==
    /\ InTurn /\ Len(requests) = 1
    /\ HasSticky(requests[1])
    /\ "customerOuid" \in DOMAIN requests[1].sessionState.sessionAttributes

\* the chunks of the well-formed chunk events, in the order of the events
RECURSIVE ChunksOf(_)
ChunksOf(es) ==
    IF es = <<>> THEN <<>>
    ELSE IF "chunk" \in DOMAIN Head(es) /\ "bytes" \in DOMAIN Head(es)["chunk"]
         THEN <<Decode(Head(es)["chunk"]["bytes"])>> \o ChunksOf(Tail(es))
         ELSE ChunksOf(Tail(es))

\* what placeholder.markdown was given with the cursor, the cursor left out
StreamRenders ==
    LET shown == SelectSeq(surfaced, LAMBDA x : x.cursor)
    IN  [i \in 1..Len(shown) |-> shown[i].text]

(* C7: while the stream has not failed, the placeholder has been given,    *)
(* with the cursor, exactly the running concatenations of the chunks       *)
(* yielded so far, which are the chunks of the stream's events in their    *)
(* order; when the turn ends the assistant message is their concatenation  *)
(* (shown once more without the cursor).                                   *)
C7_RunningConcats ==
    (InTurn /\ failure = NoFailure) =>
        /\ StreamRenders = RunningConcats(yielded)
        /\ acc = Concat(yielded)
        /\ resp.completion => yielded = ChunksOf(emitted)
        /\ pc = "done" =>
            /\ LastMessage = [role |-> "assistant", content |-> Concat(yielded)]
            /\ surfaced[Len(surfaced)] = [text |-> Concat(yielded), cursor |-> FALSE]
            /\ Len(surfaced) = Len(yielded) + 1

\* a stream of two different chunks ended
C7_Witness ==
    /\ pc = "done" /\ failure = NoFailure /\ resp.completion
    /\ Len(yielded) = 2 /\ yielded[1] /= yielded[2]
    /\ yielded[1] /= <<>> /\ yielded[2] /= <<>>

(* C8: a response without a completion stream makes the generator yield    *)
(* one chunk, the response's outputText or the empty text when it has      *)
(* none; the turn does not fail and its assistant message is that text.    *)
C8_Fallback ==
    (resp.received /\ ~resp.completion) =>
        /\ pc \in {"fallback", "done"}
        /\ yielded = << IF "outputText" \in DOMAIN resp THEN resp.outputText ELSE <<>> >>
        /\ failure = NoFailure
        /\ pc = "done" =>
            LastMessage =
                [role |-> "assistant",
                 content |-> IF "outputText" \in DOMAIN resp THEN resp.outputText ELSE <<>>]

\* a turn ended on the outputText of a response without a stream
C8_Witness ==
    /\ pc = "done" /\ resp.received /\ ~resp.completion
    /\ "outputText" \in DOMAIN resp
    /\ LastMessage.content = <<"done">>

\* a step keeps the session id the store holds
C9_IdKept ==
    ("session_id" \in state_keys) =>
        /\ "session_id" \in state_keys'
        /\ session_id' = session_id

\* the requests of the current turn carry the store's session id
C9_RequestsCarryId ==
    \A i \in 1..Len(requests) :
        /\ "session_id" \in state_keys
        /\ session_id \in UUIDs
        /\ requests[i].sessionId = session_id

(* C9: once the store holds a session id, a uuid4, it never changes, and   *)
(* every request carries it, over turns that succeed or fail and over      *)
(* changes of the settings.                                                *)
C9_StableSessionId == [][C9_IdKept]_vars /\ []C9_RequestsCarryId

\* the request of a second turn, after a first turn that failed
C9_Witness ==
    /\ Len(messages) = 3 /\ Len(requests) = 1
    /\ messages[2].content /= <<>>
    /\ messages[2].content[1] \in {AwsPrefix, RuntimePrefix}

\* the failures the remote transport or the remote service reports
RemoteFailures == {"ClientError", "EventStreamError", "EndpointConnectionError"}

(* C10: a failed turn's assistant message is the diagnostic alone, with    *)
(* the prefix 'AWS error' for every failure the remote transport or        *)
(* service reports and 'Runtime error' for every other failure.            *)
C10_DiagnosticPrefix ==
    (pc = "done" /\ failure /= NoFailure) =>
        /\ LastMessage.role = "assistant"
        /\ LastMessage.content = acc
        /\ Len(acc) = 2
        /\ acc[2] = failure
        /\ acc[1] = (IF failure \in RemoteFailures THEN AwsPrefix ELSE RuntimePrefix)

----------------------------------------------------------------------------
(* C11: the configuration guard *)

\* C11: when AGENT_ID or ALIAS_ID is empty after stripping, no run of the
\* script calls client.invoke_agent, no turn is under way, and
\* st.session_state.messages has no entry (it is not even created) and no
\* quick prompt is queued, whatever the user submits or clicks.
C11_UnconfiguredNeverInvokes ==
    (AGENT_ID = <<>> \/ ALIAS_ID = <<>>) =>
        /\ requests = <<>>
        /\ messages = <<>>
        /\ "messages" \notin state_keys
        /\ queued = <<>>
        /\ ~InTurn

\* an unconfigured session whose only event so far was a submitted input or
\* a clicked quick prompt (an edit or a toggle would show in the store)
C11_Witness ==
    /\ AGENT_ID /= <<>>
    /\ ALIAS_ID = <<>>
    /\ Loaded
    /\ inputs = 1
    /\ overrides = InitialOverrides
    /\ ~use_overrides

----------------------------------------------------------------------------
(* C12: one invocation at a time, one chunk at a time *)

\* a step that starts a turn: the user message is appended (line 281)
StartsTurn ==
    /\ Len(messages') = Len(messages) + 1
    /\ messages'[Len(messages')].role = "user"

\* a step that calls client.invoke_agent (line 50)
Invokes == requests' /= requests /\ requests' /= <<>>

\* a step that asks the stream for its next event (line 59)
RequestsNext == Len(emitted') = Len(emitted) + 1

C12_Step ==
    /\ StartsTurn =>
        /\ pc = "idle"
        /\ requests = <<>> /\ ~resp.received
        /\ messages = <<>> \/ LastMessage.role = "assistant"
    /\ Invokes =>
        /\ requests = <<>> /\ ~resp.received
        /\ Len(requests') = 1
        /\ LastMessage.role = "user"
    /\ RequestsNext =>
        /\ resp.completion
        /\ failure = NoFailure
        /\ acc = Concat(yielded)
        /\ Len(StreamRenders) = Len(yielded)
        /\ yielded /= <<>> => StreamRenders[Len(yielded)] = acc

----------------------------------------------------------------------------
(* C13: what a turn leaves alone *)

\* the transcript before the step is a prefix of the transcript after it
MessagesExtended ==
    /\ Len(messages') >= Len(messages)
    /\ SubSeq(messages', 1, Len(messages)) = messages

C13_Step ==
    /\ MessagesExtended
    /\ Len(messages') <= Len(messages) + 1
    \* the steps of a turn under way: invocation, stream, recovery, final render
    /\ (InTurn /\ pc /= "done") =>
        /\ overrides' = overrides
        /\ use_overrides' = use_overrides
        /\ session_id' = session_id
        /\ state_keys' = state_keys
        /\ queued' = queued
    \* the step that starts a turn: only the consumed label leaves the queue
    /\ StartsTurn =>
        /\ session_id' = session_id
        /\ state_keys' = state_keys
        /\ queued' = queued \/ (queued /= <<>> /\ queued' = Tail(queued))
        /\ session_attrs' = build_session_attributes(overrides', use_overrides')
        \* a run without a settings event writes back the record it read
        /\ (typed_input' /= NoTyped \/ inputs' = inputs) =>
              overrides' = overrides /\ use_overrides' = use_overrides

\* C13: a turn, successful or failed, changes the store only by appending to
\* messages (and removing the consumed queue entry): the messages it found
\* keep role, content and position, and overrides, use_overrides and
\* session_id are unchanged by build_session_attributes, the invocation and
\* the consumer of the stream.
C13_TurnOnlyAppends == [][C13_Step]_vars

\* a failed turn followed by a quick-prompt turn that succeeded: the
\* diagnostic and both user messages are where they were appended
C13_Witness ==
    /\ pc = "done"
    /\ failure = NoFailure
    /\ queued = <<>>
    /\ Len(messages) = 4
    /\ messages[1].content = <<"hi">>
    /\ messages[2].content = Diagnostic("ClientError")
    /\ messages[3].content = quick_prompts[1]
    /\ messages[4].role = "assistant"

----------------------------------------------------------------------------
(* C15: invalid UTF-8 in a chunk *)

\* the byte at position i of bs belongs to a well-formed sequence: an ASCII
\* byte, or a two-byte lead and its continuation
ValidAt(bs, i) ==
    \/ IsAscii(bs[i])
    \/ IsLead2(bs[i]) /\ i < Len(bs) /\ IsCont(bs[i + 1])
    \/ IsCont(bs[i]) /\ i > 1 /\ IsLead2(bs[i - 1])

\* bs without the bytes that belong to no well-formed sequence
RECURSIVE KeepValid(_, _)
KeepValid(bs, i) ==
    IF i > Len(bs) THEN <<>>
    ELSE (IF ValidAt(bs, i) THEN <<bs[i]>> ELSE <<>>) \o KeepValid(bs, i + 1)

\* the UTF-8 encoding of the characters the payloads hold
EncodeChar(c) ==
    CASE c = "a"       -> <<97>>
      [] c = "b"       -> <<98>>
      [] c = "e-acute" -> <<195, 169>>
      [] OTHER         -> <<63>>
Encode(text) == Concat([i \in 1..Len(text) |-> EncodeChar(text[i])])

\* the payloads of the chunk events of es that carry bytes, in stream order
RECURSIVE BytesOf(_)
BytesOf(es) ==
    IF es = <<>> THEN <<>>
    ELSE IF "chunk" \in DOMAIN Head(es) /\ "bytes" \in DOMAIN Head(es)["chunk"]
         THEN <<Head(es)["chunk"]["bytes"]>> \o BytesOf(Tail(es))
         ELSE BytesOf(Tail(es))

HasInvalidByte(bs) == \E i \in 1..Len(bs) : ~ValidAt(bs, i)

\* C15: a chunk whose bytes are not valid UTF-8 never makes the turn fail:
\* no UnicodeDecodeError is caught, the chunk yields its text with exactly
\* the invalid bytes dropped, the chunks after it are still yielded and
\* accumulated in stream order, and a turn that meets no other failure ends
\* with the accumulated text as its assistant message.
C15_InvalidBytesDropped ==
    (InTurn /\ resp.completion) =>
        LET bytes == BytesOf(emitted) IN
        /\ failure /= "UnicodeDecodeError"
        /\ Len(yielded) = Len(bytes)
        /\ \A i \in 1..Len(yielded) : Encode(yielded[i]) = KeepValid(bytes[i], 1)
        /\ failure = NoFailure =>
            /\ acc = Concat(yielded)
            /\ pc = "done" => LastMessage = [role |-> "assistant", content |-> Concat(yielded)]

\* a turn that ended without failure after a chunk with an invalid byte and
\* one more chunk: the e-acute and the "a" are the assistant message
C15_Witness ==
    /\ pc = "done"
    /\ failure = NoFailure
    /\ Len(emitted) = 2
    /\ BytesOf(emitted) /= <<>>
    /\ HasInvalidByte(BytesOf(emitted)[1])
    /\ yielded = << <<"e-acute">>, <<"a">> >>
    /\ LastMessage.content = <<"e-acute", "a">>

----------------------------------------------------------------------------
(* C16: every request carries prompt attributes *)

\* C16: every request the orchestration sends carries a sessionState whose
\* promptSessionAttributes is not empty: with use_overrides true it is the
\* built mapping, which always holds goodwillSizeGb, with use_overrides
\* false it is the baseline; no request goes out without a sessionState.
C16_PromptAttributesPresent ==
    /\ (InTurn /\ use_overrides) =>
        /\ "goodwillSizeGb" \in DOMAIN session_attrs
        /\ baseline_prompt_attrs = None
    /\ (InTurn /\ ~use_overrides) =>
        /\ session_attrs = EmptyAttrs
        /\ baseline_prompt_attrs = Some(BaselineAttrs)
    /\ \A i \in 1..Len(requests) :
        /\ HasPrompt(requests[i])
        /\ DOMAIN requests[i].sessionState.promptSessionAttributes /= {}
        /\ use_overrides =>
            /\ requests[i].sessionState.promptSessionAttributes = session_attrs
            /\ HasSticky(requests[i])
        /\ ~use_overrides =>
            /\ requests[i].sessionState.promptSessionAttributes = BaselineAttrs
            /\ ~HasSticky(requests[i])

\* a request went out with overrides on and the size set to 1000
C16_Witness ==
    /\ Len(requests) = 1
    /\ use_overrides
    /\ requests[1].sessionState.promptSessionAttributes["goodwillSizeGb"]
         = <<"1", "0", "0", "0">>

----------------------------------------------------------------------------
(* C17: the queue of quick prompts *)

\* a step that appends a label to the queue (line 263)
Enqueues == \E i \in 1..Len(quick_prompts) : queued' = Append(queued, quick_prompts[i])

\* a step that removes the oldest label from the queue (line 274)
Dequeues == queued /= <<>> /\ queued' = Tail(queued)

C17_Step ==
    \* a run starts at most one turn, and only a run starts one
    /\ Len(messages') <= Len(messages) + 1
    /\ (pc' = "invoke" /\ pc /= "invoke") => (pc = "idle" /\ StartsTurn)
    /\ StartsTurn => pc' = "invoke"
    \* the queue changes by one label at a time, appended last or taken first
    /\ queued' /= queued => (Enqueues \/ Dequeues)
    \* the click run appends, starts no turn and asks for a rerun
    /\ Enqueues => (rerun_pending' /\ pc' = "idle" /\ messages' = messages)
    \* the label leaves the queue in the run that makes it the user message
    /\ Dequeues =>
        /\ StartsTurn
        /\ user_input' = Head(queued)
        /\ messages'[Len(messages')] = [role |-> "user", content |-> Head(queued)]
    \* a turn started over a non-empty queue takes the label, typed input or not
    /\ (StartsTurn /\ queued /= <<>>) => Dequeues
    /\ (StartsTurn /\ queued = <<>>) =>
        /\ user_input' = typed_input'
        /\ messages'[Len(messages')].content = typed_input'

----------------------------------------------------------------------------
(* C18: events of the completion stream *)

\* the event has a "chunk" key, and its chunk carries "bytes"
ChunkKey(event) == "chunk" \in DOMAIN event
HasBytes(event) == ChunkKey(event) /\ "bytes" \in DOMAIN event["chunk"]

\* the number of events of es that have a "chunk" key
RECURSIVE ChunkKeyCount(_)
ChunkKeyCount(es) ==
    IF es = <<>> THEN 0
    ELSE (IF ChunkKey(Head(es)) THEN 1 ELSE 0) + ChunkKeyCount(Tail(es))

\* C18 as stated: one chunk is yielded for every event that has a "chunk"
\* key.  A chunk event without "bytes" yields nothing: line 61 raises
\* KeyError.
C18_OnePerChunkKey ==
    (InTurn /\ resp.completion) => Len(yielded) = ChunkKeyCount(emitted)

C18_Step ==
    RequestsNext =>
        LET event == emitted'[Len(emitted')] IN
        /\ SubSeq(emitted', 1, Len(emitted)) = emitted
        /\ HasBytes(event) =>
            /\ yielded' = Append(yielded, Decode(event["chunk"]["bytes"]))
            /\ pc' = "stream" /\ failure' = NoFailure
        /\ ~ChunkKey(event) =>
            /\ yielded' = yielded /\ acc' = acc /\ surfaced' = surfaced
            /\ messages' = messages
            /\ pc' = "stream" /\ failure' = NoFailure
        /\ (ChunkKey(event) /\ ~HasBytes(event)) =>
            /\ yielded' = yielded
            /\ pc' = "done" /\ failure' = "KeyError"
            /\ messages'[Len(messages')].content = Diagnostic("KeyError")

\* the chunks yielded are the decoded payloads of the events seen, in order
C18_Yielded ==
    (InTurn /\ resp.completion) =>
        yielded = [i \in 1..Len(BytesOf(emitted)) |-> Decode(BytesOf(emitted)[i])]

\* C18, amended: invoke_agent_stream yields exactly one chunk per event that
\* has a "chunk" key carrying "bytes", in stream order, and nothing for an
\* event without a "chunk" key, which adds nothing to the accumulated text
\* and does not end the stream; an event whose "chunk" carries no "bytes"
\* yields nothing and ends the turn with the KeyError diagnostic.
C18_OnePerChunkWithBytes == []C18_Yielded /\ [][C18_Step]_vars

\* a trace event came first and the stream went on to yield the chunk after it
C18_Witness ==
    /\ pc = "stream"
    /\ emitted = <<[trace |-> <<>>], [chunk |-> [bytes |-> <<97>>]]>>
    /\ yielded = << <<"a">> >>
    /\ acc = <<"a">>

====
